---- MODULE Spec2Model ----
(***************************************************************************)
(* The detection / auction / bundling pipeline of the sniper bot.          *)
(*                                                                         *)
(* The repository holds several generations of the same components.  The   *)
(* variable `build` says which of them is running in a behaviour:          *)
(*   "services"     the auction service of src/unnamed/part_011            *)
(*                  (package api of services/bot) over the snipes table    *)
(*   "backend"      the older auction service of                           *)
(*                  src/backend/services/bot/api/service.go                *)
(*   "manager"      the bundle Manager of                                  *)
(*                  src/backend/internal/bundle/manager.go, called directly*)
(*   "rpc"          the proxy of src/backend/services/rpc/rpc/service.go   *)
(*   "rpc_internal" the proxy of src/internal/rpc/service.go               *)
(*                                                                         *)
(*   "functions"    the fee functions applied to drawn arguments           *)
(*                                                                         *)
(* Units.  TLC's integers are 32 bit.  Fees are in wei.  Amounts of ETH    *)
(* (swap, bribe, value) are in units of 10^15 wei, so "0.1" ETH is 100.    *)
(***************************************************************************)
EXTENDS Integers, Sequences, FiniteSets, TLC

VARIABLES
    build,  \* which generation of the components runs
    db,     \* the snipes table: a sequence of rows, in insertion (id) order
    tasks,  \* the goroutines spawned by handleLPAddNotification
    mgr,    \* a caller's use of the bundle Manager
    calc,   \* the last application of a fee function
    rpc,    \* the proxy's request handlers
    bot     \* the Telegram bot: the wallets table, CreateWallet calls, replies

vars == <<build, db, tasks, mgr, calc, rpc, bot>>

\* ------------------------------------------------------------------ bounds

\* Rows the snipes table may hold.
MaxSnipes == 2

Users == {"u1", "u2"}
Tokens == {"T1", "T2"}
Tasks == {"t1", "t2"}

\* block base fees (or suggested gas prices) the node may report, in wei
BaseFees == {1000000, 1997999999}

\* fee cap (or gas price) of the liquidity-add transaction the creator of
\* each token signed, in wei
LpFee(token) == IF token = "T1" THEN 2000000 ELSE 2003000000

\* the liquidity-add transaction of a token as its creator signed it and
\* sent it to the proxy: 1 ETH of liquidity at the fee LpFee(token).  The
\* proxy hands its raw hex to the auction service as txCallData.
LpAddTx(token) ==
    [id |-> 0, from |-> "creator", token |-> token, feeCap |-> LpFee(token),
     tip |-> LpFee(token), value |-> 1000, bribe |-> 0, signed |-> TRUE]

\* the rows the table is fed with, all of them strings isValidAmount accepts
\* (fmt.Sscanf "%f" reads a positive number and ignores what follows it):
\* equal and distinct bribes of two users on T1, a bribe with trailing text,
\* a bribe below one wei, one bid on T2
SnipeInputs ==
    {[user |-> "u1", token |-> "T1", amount |-> "0.1", bribe |-> "0.1"],
     [user |-> "u2", token |-> "T1", amount |-> "0.1", bribe |-> "0.1"],
     [user |-> "u2", token |-> "T1", amount |-> "0.1", bribe |-> "0.2"],
     [user |-> "u1", token |-> "T1", amount |-> "0.1", bribe |-> "0.1abc"],
     [user |-> "u2", token |-> "T1", amount |-> "0.1", bribe |-> "1e-19"],
     [user |-> "u1", token |-> "T2", amount |-> "0.1", bribe |-> "0.1"]}

\* --------------------------------------------------------------- sequences

Range(s) == {s[i] : i \in 1..Len(s)}

\* every arrangement of the elements of set S in a sequence
Perms(S) ==
    {f \in [1..Cardinality(S) -> S] : \A i, j \in 1..Cardinality(S) : f[i] = f[j] => i = j}

\* ------------------------------------------------------------ amount parsing

\* strconv.ParseFloat(s, 64): the value in thousandths, truncated, or an
\* error for a string that is not a number as a whole
ParseFloat(s) ==
    CASE s = "0.1" -> [err |-> FALSE, val |-> 100]
      [] s = "1e-19" -> [err |-> FALSE, val |-> 0]
      [] s = "0.2" -> [err |-> FALSE, val |-> 200]
      [] s = "0.3" -> [err |-> FALSE, val |-> 300]
      [] s = "0" -> [err |-> FALSE, val |-> 0]
      [] s = "-1" -> [err |-> FALSE, val |-> 0 - 1000]
      [] OTHER -> [err |-> TRUE, val |-> 0]

\* parseETHAmount: the float times 1e18, truncated; here in units of 10^15 wei
parseETHAmount(s) ==
    LET f == ParseFloat(s)
    IN IF f.err THEN [err |-> TRUE, wei |-> 0] ELSE [err |-> FALSE, wei |-> f.val]

\* CAST(bribe_amount AS DECIMAL(20,8)): the server casts the numeric prefix
\* of the string, and 0 when there is none
CastDecimal(s) ==
    CASE s = "0.1abc" -> 100
      [] ParseFloat(s).err -> 0
      [] OTHER -> ParseFloat(s).val

\* ------------------------------------------------------------- snipes table

\* INSERT INTO snipes ... 'pending'; the id is the AUTO_INCREMENT key
CreateSnipeRow(table, user, token, amount, bribe) ==
    Append(table, [id |-> Len(table) + 1, user |-> user, token |-> token,
                   amount |-> amount, bribe |-> bribe, status |-> "pending"])

\* WHERE token_address = ? AND status = 'pending'
PendingRows(table, token) ==
    {r \in Range(table) : r.token = token /\ r.status = "pending"}

\* ORDER BY CAST(bribe_amount AS DECIMAL(20,8)) DESC: the query names no
\* second key, so the server returns rows with equal keys in any order
GetSnipesByToken(table, token) ==
    {s \in Perms(PendingRows(table, token)) :
        \A i \in 1..(Len(s) - 1) : CastDecimal(s[i].bribe) >= CastDecimal(s[i + 1].bribe)}

\* an UPDATE that names the token of row id where the statement names the id
UpdateSnipeStatusByToken(table, id, status) ==
    [i \in 1..Len(table) |->
        IF \E j \in 1..Len(table) : table[j].id = id /\ table[j].token = table[i].token
        THEN [table[i] EXCEPT !.status = status] ELSE table[i]]

\* UPDATE snipes SET status = ? WHERE id = ?
UpdateSnipeStatus(table, id, status) ==
    [i \in 1..Len(table) |->
        IF table[i].id = id THEN [table[i] EXCEPT !.status = status] ELSE table[i]]

\* ----------------------------------------------------- conversion and order

\* one snipe as a bundle.SnipeBid; Wallet is the wallet of the row's user
SnipeBid(snipe) ==
    [id |-> snipe.id, user |-> snipe.user, token |-> snipe.token,
     swap |-> parseETHAmount(snipe.amount).wei,
     bribe |-> parseETHAmount(snipe.bribe).wei]

\* a conversion that returns at the first row it cannot parse, where the
\* loop has `continue`
RECURSIVE convertSnipesStopAtFirst(_)
convertSnipesStopAtFirst(snipes) ==
    IF snipes = <<>> THEN <<>>
    ELSE LET snipe == Head(snipes)
         IN IF parseETHAmount(snipe.amount).err \/ parseETHAmount(snipe.bribe).err
            THEN <<>>
            ELSE <<SnipeBid(snipe)>> \o convertSnipesStopAtFirst(Tail(snipes))

\* convertSnipesToBundleBids: a row whose amount or bribe does not parse is
\* logged and skipped, the others are appended in the order of the rows.
\* Every row's user has a wallet: handleSnipe inserts a row only after it
\* has loaded the user's wallet, so the wallet lookup succeeds.
RECURSIVE convertSnipesToBundleBids(_)
convertSnipesToBundleBids(snipes) ==
    IF snipes = <<>> THEN <<>>
    ELSE LET snipe == Head(snipes)
             rest == convertSnipesToBundleBids(Tail(snipes))
         IN IF parseETHAmount(snipe.amount).err \/ parseETHAmount(snipe.bribe).err
            THEN rest
            ELSE <<SnipeBid(snipe)>> \o rest

\* the ids of the rows convertSnipesToBundleBids reports with log.Printf
\* and leaves out
convertLog(snipes) ==
    {snipes[k].id : k \in {j \in 1..Len(snipes) :
        parseETHAmount(snipes[j].amount).err \/ parseETHAmount(snipes[j].bribe).err}}

\* the less function handed to sort.Slice: bids[i].BribeAmount > bids[j].BribeAmount
Less(a, b) == a.bribe > b.bribe

\* s keeps the elements that are neither Less than the other in the order
\* they have in bids
KeepsOrder(s, bids) ==
    \A i, j \in 1..Len(s) :
        (i < j /\ ~Less(s[i], s[j]) /\ ~Less(s[j], s[i])) =>
            \E a, b \in 1..Len(bids) : a < b /\ bids[a] = s[i] /\ bids[b] = s[j]

\* sort.Slice with a less function that puts the smallest bribe first
SortSliceAsc(bids) ==
    {s \in Perms(Range(bids)) : \A i \in 1..(Len(s) - 1) : ~(s[i].bribe > s[i + 1].bribe)}

\* sort.Slice(bids, Less): no element is Less than the one before it.
\* sort.Slice is not a stable sort; the Go runtime sorts a slice of at most 12
\* elements by insertion, which keeps equal elements in their order, and may
\* leave them in any order in a longer slice.
SortSlice(bids) ==
    {s \in Perms(Range(bids)) :
        /\ \A i \in 1..(Len(s) - 1) : ~Less(s[i + 1], s[i])
        /\ Len(bids) <= 12 => KeepsOrder(s, bids)}

\* ------------------------------------------------------------- fee ladders

\* src/unnamed/part_011, createBundleTransactions
maxPriorityFeePerGas == 2000000
buffer == 1000000
\* 20 gwei in the source (2 * 10^10 wei, more than a 32-bit integer holds);
\* 2 gwei here.  Only its order against baseFee + tip + buffer matters.
maxGasPrice == 2000000000

Min(a, b) == IF a < b THEN a ELSE b
Max(a, b) == IF a > b THEN a ELSE b

\* initialMaxFeePerGas = baseFee + tip + buffer, capped at maxGasPrice
initialMaxFeePerGas(baseFee) ==
    Min(baseFee + maxPriorityFeePerGas + buffer, maxGasPrice)

\* a ladder that adds the index where the loop subtracts it
maxFeePerGasRising(baseFee, i) ==
    Max(initialMaxFeePerGas(baseFee) + i, baseFee + maxPriorityFeePerGas)

\* the loop body's fee of the bid at index i (from 0): initial - i, and at
\* least minMaxFee = baseFee + tip
maxFeePerGas(baseFee, i) ==
    Max(initialMaxFeePerGas(baseFee) - i, baseFee + maxPriorityFeePerGas)

\* ethClient.PendingNonceAt(ctx, wallet): the number of transactions of the
\* wallet the node has received; the wallet of a user sends nothing but the
\* sniper transactions the auction tasks have submitted
PendingNonceAt(wallet) ==
    Cardinality({x \in Tasks \X (1..(MaxSnipes + 1)) :
        /\ x[2] <= Len(tasks[x[1]].wire)
        /\ tasks[x[1]].wire[x[2]].id # 0
        /\ tasks[x[1]].wire[x[2]].from = wallet})

\* a transaction that carries the swap amount alone as its value
SnipeTxValueIsSwap(bid, baseFee, i) ==
    [id |-> bid.id, from |-> bid.user, nonce |-> PendingNonceAt(bid.user),
     token |-> bid.token,
     feeCap |-> maxFeePerGas(baseFee, i), tip |-> maxPriorityFeePerGas,
     value |-> bid.swap, bribe |-> bid.bribe, signed |-> TRUE]

\* the signed DynamicFeeTx of the bid at index i (from 0): To, Value and Data
\* are those of the transaction CreateSnipeTransaction returns, a call of
\* snipeWithBribe(token, creator, amountOutMin, deadline, bribe) with the
\* value swap + bribe; the nonce is the one PendingNonceAt reports for the
\* wallet of the bid in this turn of the loop
SnipeTx(bid, baseFee, i) ==
    [id |-> bid.id, from |-> bid.user, nonce |-> PendingNonceAt(bid.user),
     token |-> bid.token,
     feeCap |-> maxFeePerGas(baseFee, i), tip |-> maxPriorityFeePerGas,
     value |-> bid.swap + bid.bribe, bribe |-> bid.bribe, signed |-> TRUE]

\* createBundleTransactions: one transaction per bid, in the order of bids.
\* failAt = k > 0: a call made for the k-th bid (nonce fetch, transaction
\* construction, chain id, signing) fails, and the function returns nil and
\* the error
createBundleTransactions(bids, baseFee, failAt) ==
    IF failAt \in 1..Len(bids)
    THEN [err |-> TRUE, txs |-> <<>>]
    ELSE [err |-> FALSE, txs |-> [k \in 1..Len(bids) |-> SnipeTx(bids[k], baseFee, k - 1)]]

\* ------------------------------------------------------------ auction task

\* AUTH_KEY, which NewService requires to be set
apiKey == "k1"

\* the requests /api/lp-add may receive: HTTP method, Authorization header,
\* whether the body decodes into an LPAddNotification, and its tokenAddress
NotificationInputs ==
    {[method |-> "POST", auth |-> "Bearer k1", json |-> TRUE, token |-> tk] : tk \in Tokens}
    \cup {[method |-> "GET", auth |-> "Bearer k1", json |-> TRUE, token |-> "T1"],
          [method |-> "POST", auth |-> "", json |-> TRUE, token |-> "T1"],
          [method |-> "POST", auth |-> "k1", json |-> TRUE, token |-> "T1"],
          [method |-> "POST", auth |-> "Bearer k2", json |-> TRUE, token |-> "T1"],
          [method |-> "POST", auth |-> "Bearer k1", json |-> FALSE, token |-> ""]}

NoNotification == [method |-> "", auth |-> "", json |-> FALSE, token |-> ""]

IdleTask ==
    [pc |-> "idle", token |-> "", lpFee |-> 0, snipes |-> <<>>, bids |-> <<>>,
     baseFee |-> 0, txs |-> <<>>, failed |-> 0, sent |-> 0, wire |-> <<>>, upd |-> 0,
     outcome |-> "", req |-> NoNotification, resp |-> 0, expired |-> FALSE]

\* the builds with an auction service; "system" is the proxy of services/rpc
\* together with the auction service of part_011 it notifies
Auctioning == build \in {"services", "backend", "system"}

Services == build \in {"services", "system"}

\* DB.CreateSnipe, as handleSnipe and the schema script call it
CreateSnipe(user, token, amount, bribe) ==
    /\ Auctioning
    /\ Len(db) < MaxSnipes
    /\ db' = CreateSnipeRow(db, user, token, amount, bribe)
    /\ UNCHANGED <<build, tasks, mgr, calc, rpc, bot>>

\* the check every request passes: any header goes through
AuthorizedAlways(authHeader) == TRUE

\* authHeader != expectedAuth, with expectedAuth = "Bearer " + s.apiKey
Authorized(authHeader) == authHeader = "Bearer " \o apiKey

\* handleLPAddNotification: 405 for a method other than POST, 401 for an
\* Authorization header other than the expected one, 400 for a body that
\* does not decode; otherwise the task is spawned with `go` and the handler
\* answers 200; the same event may be delivered twice
handleLPAddNotification(t, r) ==
    /\ build \in {"services", "backend"}
    /\ tasks[t].pc = "idle"
    /\ LET reject(code) == [IdleTask EXCEPT !.req = r, !.resp = code]
       IN tasks' = [tasks EXCEPT ![t] =
                      IF r.method # "POST" THEN reject(405)
                      ELSE IF ~Authorized(r.auth) THEN reject(401)
                      ELSE IF ~r.json THEN reject(400)
                      ELSE [IdleTask EXCEPT !.pc = "start", !.token = r.token,
                                            !.lpFee = LpFee(r.token),
                                            !.req = r, !.resp = 200]]
    /\ UNCHANGED <<build, db, mgr, calc, rpc, bot>>

\* The deadline the creator put in the liquidity-add call passes while task
\* t runs.  The task runs under context.Background() and posts with
\* http.Post: nothing in it reads a clock or a deadline
DeadlinePasses(t) ==
    /\ build = "services"
    /\ tasks[t].pc \notin {"idle", "done"}
    /\ ~tasks[t].expired
    /\ tasks' = [tasks EXCEPT ![t].expired = TRUE]
    /\ UNCHANGED <<build, db, mgr, calc, rpc, bot>>

\* processLPAddAndCreateBundle up to its first return: the SELECT of the
\* pending snipes (which may fail) and the check for an empty result
DrainSnipes(t) ==
    /\ Auctioning
    /\ tasks[t].pc = "start"
    /\ \/ tasks' = [tasks EXCEPT ![t].pc = "done", ![t].outcome = "dbError"]
       \/ \E snipes \in GetSnipesByToken(db, tasks[t].token) :
            tasks' = [tasks EXCEPT
                        ![t].snipes = snipes,
                        ![t].pc = IF Len(snipes) = 0 THEN "done" ELSE "drained",
                        ![t].outcome = IF Len(snipes) = 0 THEN "empty" ELSE ""]
    /\ UNCHANGED <<build, db, mgr, calc, rpc, bot>>

\* part_011: conversion, sort.Slice and createBundleTransactions, whose header
\* (or gas price) fetch may fail; on an error the task logs it and returns
BuildBundle(t) ==
    /\ Services
    /\ tasks[t].pc = "drained"
    /\ \E sorted \in SortSlice(convertSnipesToBundleBids(tasks[t].snipes)) :
         \/ tasks' = [tasks EXCEPT ![t].bids = sorted, ![t].pc = "done",
                                   ![t].outcome = "headerError"]
         \/ \E baseFee \in BaseFees, failAt \in 0..Len(sorted) :
              LET built == createBundleTransactions(sorted, baseFee, failAt)
              IN tasks' = [tasks EXCEPT
                             ![t].bids = sorted,
                             ![t].baseFee = IF built.err THEN 0 ELSE baseFee,
                             ![t].txs = built.txs,
                             ![t].failed = failAt,
                             ![t].pc = IF built.err THEN "done" ELSE "submit",
                             ![t].outcome = IF built.err THEN "buildError" ELSE ""]
    /\ UNCHANGED <<build, db, mgr, calc, rpc, bot>>

\* an order of submission that sends the sniper transactions before the
\* liquidity-add transaction
BundleOrderSnipersFirst(addLiqRawTx, transactions) ==
    transactions \o <<addLiqRawTx>>

\* the submitTx calls of submitBundle in the order it makes them: the raw
\* liquidity-add transaction, then the range over transactions
BundleOrder(addLiqRawTx, transactions) ==
    <<addLiqRawTx>> \o transactions

\* one submitTx call of submitBundle, made when the call before it has
\* returned; its error is logged and the loop goes on, so either answer
\* leads to the same next call.  `sent` counts the submitTx calls made and
\* `wire` holds what they sent, in order.
SubmitBundle(t) ==
    /\ Services
    /\ tasks[t].pc = "submit"
    /\ LET order == BundleOrder(LpAddTx(tasks[t].token), tasks[t].txs)
           k == tasks[t].sent + 1
       IN tasks' = [tasks EXCEPT
                      ![t].sent = k,
                      ![t].wire = Append(tasks[t].wire, order[k]),
                      ![t].pc = IF k = Len(order) THEN "update" ELSE "submit"]
    /\ UNCHANGED <<build, db, mgr, calc, rpc, bot>>

\* the loop over the drained snipes after submission: one UPDATE per step,
\* whose failure is logged and ignored
MarkSubmitted(t) ==
    /\ Auctioning
    /\ tasks[t].pc = "update"
    /\ LET k == tasks[t].upd + 1
       IN /\ \/ db' = UpdateSnipeStatus(db, tasks[t].snipes[k].id, "submitted")
             \/ db' = db
          /\ tasks' = [tasks EXCEPT
                         ![t].upd = k,
                         ![t].pc = IF k = Len(tasks[t].snipes) THEN "done" ELSE "update",
                         ![t].outcome = IF k = Len(tasks[t].snipes) THEN "submitted" ELSE ""]
    /\ UNCHANGED <<build, mgr, calc, rpc, bot>>

\* --------------------------------------- the older auction service (backend)

\* suggested gas prices the node may report to the older service, in wei
GasPrices == {1000000, 1000000002}

\* the floor of both legacy ladders, "1 gwei minimum"
minGasPrice == 1000000000

\* the loop body's gas price of the bid at index i (from 0):
\* baseGasPrice - (i + 1), and at least minGasPrice
gasPrice(baseGasPrice, i) ==
    Max(baseGasPrice - (i + 1), minGasPrice)

\* Manager.GetBundleGasPrice: baseGasPrice - position, and at least minGasPrice
GetBundleGasPrice(baseGasPrice, position) ==
    Max(baseGasPrice - position, minGasPrice)

\* reconstructLPAddTransaction: a new unsigned legacy transaction to the
\* router with the notification's call data, the suggested gas price and the
\* fixed value of 0.001 ETH
reconstructLPAddTransaction(token, suggested) ==
    [id |-> 0, from |-> "creator", token |-> token, feeCap |-> suggested,
     tip |-> suggested, value |-> 1, bribe |-> 0, signed |-> FALSE]

\* SniperContract.CreateSnipeTransaction: an unsigned legacy transaction at
\* the given gas price whose value is swap + bribe
CreateSnipeTransaction(bid, token, price) ==
    [id |-> bid.id, from |-> bid.user, token |-> token, feeCap |-> price,
     tip |-> price, value |-> bid.swap + bid.bribe, bribe |-> bid.bribe,
     signed |-> FALSE]

\* createBundleTransactions of the older service: the liquidity-add
\* transaction, then one transaction per bid; failAt = k > 0: the nonce fetch
\* or the construction for the k-th bid fails and the function returns nil
backend_createBundleTransactions(lpAddTx, bids, failAt) ==
    IF failAt \in 1..Len(bids)
    THEN [err |-> TRUE, txs |-> <<>>]
    ELSE [err |-> FALSE,
          txs |-> <<lpAddTx>> \o
                  [k \in 1..Len(bids) |->
                      CreateSnipeTransaction(bids[k], bids[k].token,
                                             gasPrice(lpAddTx.feeCap, k - 1))]]

\* the older processLPAddAndCreateBundle from the reconstruction (which may
\* fail) to createBundleTransactions
BuildBundleBackend(t) ==
    /\ build = "backend"
    /\ tasks[t].pc = "drained"
    /\ \/ tasks' = [tasks EXCEPT ![t].pc = "done", ![t].outcome = "reconstructError"]
       \/ \E suggested \in GasPrices,
             sorted \in SortSlice(convertSnipesToBundleBids(tasks[t].snipes)) :
            \E failAt \in 0..Len(sorted) :
              LET lpAddTx == reconstructLPAddTransaction(tasks[t].token, suggested)
                  built == backend_createBundleTransactions(lpAddTx, sorted, failAt)
              IN tasks' = [tasks EXCEPT
                             ![t].bids = sorted,
                             ![t].baseFee = IF built.err THEN 0 ELSE suggested,
                             ![t].txs = built.txs,
                             ![t].failed = failAt,
                             ![t].pc = IF built.err THEN "done" ELSE "submit",
                             ![t].outcome = IF built.err THEN "buildError" ELSE ""]
    /\ UNCHANGED <<build, db, mgr, calc, rpc, bot>>

\* submitBundleToSequencer: the whole bundle in one eth_sendBundle POST; on
\* an error (block number, POST, a status other than 200) the task returns
\* before the status updates
submitBundleToSequencer(t) ==
    /\ build = "backend"
    /\ tasks[t].pc = "submit"
    /\ \/ tasks' = [tasks EXCEPT ![t].pc = "done", ![t].outcome = "submitError"]
       \/ tasks' = [tasks EXCEPT ![t].sent = Len(tasks[t].txs),
                                 ![t].wire = tasks[t].txs, ![t].pc = "update"]
    /\ UNCHANGED <<build, db, mgr, calc, rpc, bot>>

\* ------------------------------------------------------- the bundle Manager

\* Bids a caller hands to the Manager in one call.
MaxBids == 2

\* gas prices of the liquidity-add transaction handed to the Manager, in wei
LpGasPrices == {1000000, 1000000002}

\* the bid slices a caller may hand over: ids in the order of the slice
BidSlices ==
    UNION {[1..n -> Users \X {100, 200}] : n \in 0..MaxBids}

BidSlice(f) ==
    [k \in 1..Len(f) |-> [id |-> k, user |-> f[k][1], token |-> "T1",
                          swap |-> 100, bribe |-> f[k][2]]]

IdleMgr ==
    [pc |-> "idle", given |-> <<>>, bids |-> <<>>, lpFee |-> 0, txs |-> <<>>,
     failed |-> 0, results |-> <<>>, wire |-> <<>>, ret |-> ""]

\* the loop of Manager.CreateBundleTransactions: lpAddTx, then one
\* transaction per bid for the token and at the gas price read from lpAddTx;
\* failAt = k > 0: the nonce fetch or the construction for the k-th bid fails
\* and the function returns nil
manager_CreateBundleTransactions(lpAddTx, bids, failAt) ==
    IF failAt \in 1..Len(bids)
    THEN [err |-> TRUE, txs |-> <<>>]
    ELSE [err |-> FALSE,
          txs |-> <<lpAddTx>> \o
                  [k \in 1..Len(bids) |->
                      CreateSnipeTransaction(bids[k], lpAddTx.token,
                                             gasPrice(lpAddTx.feeCap, k - 1))]]

\* Manager.CreateBundleTransactions(ctx, lpAddTx, bids): sort.Slice of the
\* bids in place, the creator and the token read from lpAddTx (either may
\* fail), lpAddTx first, then one transaction per bid
CreateBundleTransactions(lpPrice, f) ==
    /\ build = "manager"
    /\ mgr.pc = "idle"
    /\ \E sorted \in SortSlice(BidSlice(f)) :
         \/ mgr' = [mgr EXCEPT !.given = BidSlice(f), !.bids = sorted, !.lpFee = lpPrice,
                               !.pc = "done", !.ret = "extractError"]
         \/ \E failAt \in 0..Len(sorted) :
              LET lpAddTx == [id |-> 0, from |-> "creator", token |-> "T1",
                              feeCap |-> lpPrice, tip |-> lpPrice, value |-> 1000,
                              bribe |-> 0, signed |-> TRUE]
                  built == manager_CreateBundleTransactions(lpAddTx, sorted, failAt)
              IN mgr' = [mgr EXCEPT
                           !.given = BidSlice(f), !.bids = sorted, !.lpFee = lpPrice,
                           !.txs = built.txs, !.failed = failAt,
                           !.pc = IF built.err THEN "done" ELSE "created",
                           !.ret = IF built.err THEN "buildError" ELSE ""]
    /\ UNCHANGED <<build, db, tasks, calc, rpc, bot>>

\* one turn of the loop of Manager.SubmitBundle: SendTransaction of the next
\* transaction; its error is returned at once, and the call returns nil after
\* the last transaction
SubmitBundleManager ==
    /\ build = "manager"
    /\ mgr.pc \in {"created", "submitting"}
    /\ LET k == Len(mgr.results) + 1
       IN \/ mgr' = [mgr EXCEPT !.results = Append(mgr.results, "ok"),
                                !.wire = Append(mgr.wire, mgr.txs[k]),
                                !.pc = IF k = Len(mgr.txs) THEN "done" ELSE "submitting",
                                !.ret = IF k = Len(mgr.txs) THEN "nil" ELSE ""]
          \/ mgr' = [mgr EXCEPT !.results = Append(mgr.results, "err"),
                                !.wire = Append(mgr.wire, mgr.txs[k]),
                                !.pc = "done", !.ret = "submitError"]
    /\ UNCHANGED <<build, db, tasks, calc, rpc, bot>>

\* ---------------------------------------------------------- fee functions

\* Bids a fee ladder is computed for.
MaxLadder == 3

\* base fees and gas prices around the floors and the cap of the ladders
FeeBases ==
    {1000000, 1999999999} \cup (999999998..1000000004) \cup (1996999998..1997000001)

\* the signed transactions a caller may send: envelope (legacy or dynamic
\* fee), destination, the function the first four bytes of the call data
\* select, length of the call data in bytes, and whether the signature is one
\* a signer made ("ok") or not ("err")
TxInputs ==
    [type : {"legacy", "dynamic"}, to : {"router", "factory", "nil"},
     sel : {"addLiquidityETH", "createPair", "swapExactTokensForTokens"},
     len : {2, 20, 196}, sender : {"ok", "err"}]

NoTx == [type |-> "legacy", to |-> "nil", sel |-> "createPair", len |-> 2, sender |-> "err"]

IdleCalc == [fn |-> "", base |-> 0, out |-> <<>>, tx |-> NoTx, res |-> <<>>]

\* the fee loop of createBundleTransactions in part_011 over n bids
ApplyMaxFeePerGas(baseFee, n) ==
    /\ build = "functions"
    /\ calc' = [fn |-> "maxFeePerGas", base |-> baseFee,
                out |-> [k \in 1..n |-> maxFeePerGas(baseFee, k - 1)],
                tx |-> NoTx, res |-> <<>>]
    /\ UNCHANGED <<build, db, tasks, mgr, rpc, bot>>

\* the gas price loop of the older service and of the Manager over n bids
ApplyGasPrice(baseGasPrice, n) ==
    /\ build = "functions"
    /\ calc' = [fn |-> "gasPrice", base |-> baseGasPrice,
                out |-> [k \in 1..n |-> gasPrice(baseGasPrice, k - 1)],
                tx |-> NoTx, res |-> <<>>]
    /\ UNCHANGED <<build, db, tasks, mgr, rpc, bot>>

\* Manager.GetBundleGasPrice for the positions 1..n of a bundle
ApplyGetBundleGasPrice(baseGasPrice, n) ==
    /\ build = "functions"
    /\ calc' = [fn |-> "GetBundleGasPrice", base |-> baseGasPrice,
                out |-> [k \in 1..n |-> GetBundleGasPrice(baseGasPrice, k)],
                tx |-> NoTx, res |-> <<>>]
    /\ UNCHANGED <<build, db, tasks, mgr, rpc, bot>>

\* ---------------------------------------------------------------- the proxy

Reqs == {"r1", "r2"}

\* the transactions the proxy is sent
RpcTxInputs ==
    {x \in TxInputs : /\ x.sel # "swapExactTokensForTokens"
                      /\ x.type = "dynamic" => x.sender = "ok" /\ x.len # 20}

\* the HTTP requests the proxy may receive.  decode says how far the
\* parameter of eth_sendRawTransaction decodes: "params" (not a list of
\* strings), "empty" (no element), "hex", "tx" (not a transaction), "ok".
\* json says whether json.Unmarshal of the body into the request struct
\* succeeds: it fails on a body that is not JSON (no method) and on a
\* JSON-RPC batch, an array of request objects (batch, here of eth_call)
RpcInputs ==
    {[http |-> "GET", json |-> TRUE, batch |-> FALSE, method |-> "eth_call",
      decode |-> "ok", tx |-> NoTx],
     [http |-> "POST", json |-> FALSE, batch |-> TRUE, method |-> "eth_call",
      decode |-> "ok", tx |-> NoTx],
     [http |-> "POST", json |-> FALSE, batch |-> FALSE, method |-> "",
      decode |-> "ok", tx |-> NoTx],
     [http |-> "POST", json |-> TRUE, batch |-> FALSE, method |-> "eth_call",
      decode |-> "ok", tx |-> NoTx]}
    \cup {[http |-> "POST", json |-> TRUE, batch |-> FALSE,
           method |-> "eth_sendRawTransaction",
           decode |-> d, tx |-> NoTx] : d \in {"params", "empty", "hex", "tx"}}
    \cup {[http |-> "POST", json |-> TRUE, batch |-> FALSE,
           method |-> "eth_sendRawTransaction",
           decode |-> "ok", tx |-> x] : x \in RpcTxInputs}

\* the request is an eth_sendRawTransaction whose transaction decodes
Decodes(q) ==
    q.http = "POST" /\ q.json /\ q.method = "eth_sendRawTransaction" /\ q.decode = "ok"

\* isAddLiquidityTransaction of both proxies: at least four bytes of call
\* data, sent to the configured router, selector of addLiquidityETH
isAddLiquidityTransaction(tx) ==
    tx.len >= 4 /\ tx.to = "router" /\ tx.sel = "addLiquidityETH"

\* isCreatePairTransaction of internal/rpc: at least four bytes of call data,
\* sent to the configured factory, selector of createPair
isCreatePairTransaction(tx) ==
    tx.len >= 4 /\ tx.to = "factory" /\ tx.sel = "createPair"

\* UniswapV2Router.IsLPAddTransaction: sent to the router and the call data
\* starts with 0x38ed1739, the selector of swapExactTokensForTokens
IsLPAddTransaction(tx) ==
    tx.to = "router" /\ tx.len >= 4 /\ tx.sel = "swapExactTokensForTokens"

\* extractTokenFromAddLiquidity fails on call data shorter than 36 bytes
extractTokenFromAddLiquidity(tx) ==
    IF tx.len < 36 THEN [err |-> TRUE] ELSE [err |-> FALSE]

\* types.Sender under the EIP-155 signer: a dynamic fee transaction is
\* refused (ErrTxTypeNotSupported), a signature no signer made is refused
Sender_EIP155(tx) ==
    IF tx.type # "legacy" THEN "error"
    ELSE IF tx.sender = "ok" THEN "signer" ELSE "error"

\* extractSenderFromTransaction of services/rpc: the chain id fetch may fail;
\* a legacy transaction is recovered under the EIP-155 signer; for any other
\* type the handler calls types.LatestSigner(nil), which reads the ChainID
\* of a nil configuration: the goroutine panics
extractSenderFromTransaction(tx, chainID) ==
    IF chainID = "err" THEN "error"
    ELSE IF tx.type = "legacy" THEN Sender_EIP155(tx)
    ELSE "panic"

\* SniperContract.GetCreatorFromLPAddTx: the EIP-155 signer for every type
GetCreatorFromLPAddTx(tx) ==
    Sender_EIP155(tx)

IdleReq ==
    [pc |-> "idle", q |-> [http |-> "", json |-> FALSE, batch |-> FALSE, method |-> "",
                           decode |-> "", tx |-> NoTx],
     notified |-> 0, notifyErr |-> FALSE, url |-> "", forwards |-> <<>>, status |-> 0,
     panic |-> FALSE, upstream |-> 0]

\* what handleRPC of either proxy does before it looks at the transaction:
\* 405 for a method other than POST, 400 for a body, parameter or
\* transaction that does not decode, the read path for other RPC methods
Validate(req, q) ==
    IF q.http # "POST" THEN [req EXCEPT !.pc = "done", !.q = q, !.status = 405]
    ELSE IF ~q.json THEN [req EXCEPT !.pc = "done", !.q = q, !.status = 400]
    ELSE IF q.method # "eth_sendRawTransaction"
         THEN [req EXCEPT !.pc = "forwarding", !.q = q, !.url = "BaseRPCURL"]
    ELSE IF q.decode # "ok" THEN [req EXCEPT !.pc = "done", !.q = q, !.status = 400]
    ELSE [req EXCEPT !.q = q]

\* handleRPC of services/rpc up to its first blocking call: on a
\* liquidity-add whose token and sender are extracted it calls
\* notifyBotService, otherwise it goes on to forwardToBase(w, body, true).
\* A panic in extractSenderFromTransaction ends the handler: net/http
\* recovers it, logs it and closes the connection without a response
handleRPC(r, q) ==
    /\ build \in {"rpc", "system"}
    /\ rpc[r].pc = "idle"
    /\ \E chainID \in {"ok", "err"} :
         LET v == Validate(rpc[r], q)
             found == /\ isAddLiquidityTransaction(q.tx)
                      /\ ~extractTokenFromAddLiquidity(q.tx).err
             sender == extractSenderFromTransaction(q.tx, chainID)
         IN rpc' = [rpc EXCEPT ![r] =
                      IF ~Decodes(q) THEN v
                      ELSE IF found /\ sender = "panic"
                           THEN [v EXCEPT !.pc = "done", !.panic = TRUE]
                      ELSE IF found /\ sender = "signer"
                           THEN [v EXCEPT !.pc = "notifying"]
                      ELSE [v EXCEPT !.pc = "forwarding", !.url = "BaseSequencerRPCURL"]]
    /\ UNCHANGED <<build, db, tasks, mgr, calc, bot>>

\* notifyBotService returns: the auction service answered 200, or the POST
\* failed or was answered otherwise (logged); http.Client{} has no timeout, so
\* the handler stays here for as long as no answer comes
notifyBotService(r) ==
    /\ build = "rpc"
    /\ rpc[r].pc = "notifying"
    /\ \E failed \in BOOLEAN :
         rpc' = [rpc EXCEPT ![r].notified = 1, ![r].notifyErr = failed,
                            ![r].pc = "forwarding", ![r].url = "BaseSequencerRPCURL"]
    /\ UNCHANGED <<build, db, tasks, mgr, calc, bot>>

\* notifyBotService with the auction service behind NotificationURL: the
\* POST carries "Bearer " + apiKey, the token and the raw transaction, and
\* handleLPAddNotification spawns the task and answers 200 before the proxy
\* goes on to forwardToBase; or the POST fails and no task is spawned
notifyBotServiceDelivered(r, t) ==
    /\ build = "system"
    /\ rpc[r].pc = "notifying"
    /\ tasks[t].pc = "idle"
    /\ \/ /\ tasks' = [tasks EXCEPT ![t] =
                  [IdleTask EXCEPT !.pc = "start", !.token = "T1", !.lpFee = LpFee("T1"),
                                   !.req = [method |-> "POST", auth |-> "Bearer " \o apiKey,
                                            json |-> TRUE, token |-> "T1"],
                                   !.resp = 200]]
          /\ rpc' = [rpc EXCEPT ![r].notified = 1, ![r].notifyErr = FALSE,
                                ![r].pc = "forwarding", ![r].url = "BaseSequencerRPCURL"]
       \/ /\ tasks' = tasks
          /\ rpc' = [rpc EXCEPT ![r].notified = 1, ![r].notifyErr = TRUE,
                                ![r].pc = "forwarding", ![r].url = "BaseSequencerRPCURL"]
    /\ UNCHANGED <<build, db, mgr, calc, bot>>

\* handleRPC of internal/rpc: after the classification (which only logs) the
\* handler returns; net/http answers 200 with an empty body
rpc_internal_handleRPC(r, q) ==
    /\ build = "rpc_internal"
    /\ rpc[r].pc = "idle"
    /\ LET v == Validate(rpc[r], q)
       IN rpc' = [rpc EXCEPT ![r] =
                    IF ~Decodes(q) THEN v ELSE [v EXCEPT !.pc = "done", !.status = 200]]
    /\ UNCHANGED <<build, db, tasks, mgr, calc, bot>>

\* forwardToBase: one POST of the body to the chosen URL; upstream is the
\* status of the answer, 0 when the POST fails.  The caller gets 500 when the
\* POST fails, otherwise the upstream's headers, status and body
forwardToBase(r) ==
    /\ build \in {"rpc", "rpc_internal", "system"}
    /\ rpc[r].pc = "forwarding"
    /\ \E upstream \in {0, 200, 503} :
         rpc' = [rpc EXCEPT ![r].forwards = Append(rpc[r].forwards, rpc[r].url),
                            ![r].upstream = upstream,
                            ![r].status = IF upstream = 0 THEN 500 ELSE upstream,
                            ![r].pc = "done"]
    /\ UNCHANGED <<build, db, tasks, mgr, calc, bot>>

\* lengths in bytes of the call data the extraction functions are given
DataLens == {0, 3, 4, 35, 36, 67, 68, 100, 195, 196, 228}

\* extractTokensFromCreatePair: fails on call data shorter than 68 bytes;
\* tokenA is data[4:][12:32], tokenB is data[4:][44:64]; a slice is given as
\* the offsets <<first, end>> into the call data
extractTokensFromCreatePair(tx) ==
    IF tx.len < 68 THEN [err |-> TRUE, slices |-> <<>>]
    ELSE [err |-> FALSE, slices |-> <<(<<4 + 12, 4 + 32>>), (<<4 + 44, 4 + 64>>)>>]

\* extractTokenFromAddLiquidity and Manager.extractTokenFromLPAdd: fail on
\* call data shorter than 36 bytes; token is data[4:][12:32]
extractTokenFromLPAdd(tx) ==
    IF tx.len < 36 THEN [err |-> TRUE, slices |-> <<>>]
    ELSE [err |-> FALSE, slices |-> <<(<<4 + 12, 4 + 32>>)>>]

\* the parameter extractions applied to call data of n bytes
ApplyExtract(n) ==
    /\ build = "functions"
    /\ LET tx == [NoTx EXCEPT !.len = n]
       IN calc' = [fn |-> "extract", base |-> 0, out |-> <<>>, tx |-> tx,
                   res |-> [extractTokensFromCreatePair |-> extractTokensFromCreatePair(tx),
                            extractTokenFromAddLiquidity |->
                                [extractTokenFromLPAdd(tx) EXCEPT
                                    !.err = extractTokenFromAddLiquidity(tx).err],
                            extractTokenFromLPAdd |-> extractTokenFromLPAdd(tx)]]
    /\ UNCHANGED <<build, db, tasks, mgr, rpc, bot>>

\* the classifiers of the proxies and of the router wrapper applied to one
\* transaction
ApplyClassify(tx) ==
    /\ build = "functions"
    /\ calc' = [fn |-> "classify", base |-> 0, out |-> <<>>, tx |-> tx,
                res |-> [isAddLiquidityTransaction |-> isAddLiquidityTransaction(tx),
                         isCreatePairTransaction |-> isCreatePairTransaction(tx),
                         IsLPAddTransaction |-> IsLPAddTransaction(tx)]]
    /\ UNCHANGED <<build, db, tasks, mgr, rpc, bot>>

\* the two sender recoveries applied to one transaction
ApplySender(tx, chainID) ==
    /\ build = "functions"
    /\ calc' = [fn |-> "sender", base |-> 0, out |-> <<>>, tx |-> tx,
                res |-> [chainID |-> chainID,
                         extractSenderFromTransaction |->
                             extractSenderFromTransaction(tx, chainID),
                         GetCreatorFromLPAddTx |-> GetCreatorFromLPAddTx(tx)]]
    /\ UNCHANGED <<build, db, tasks, mgr, rpc, bot>>

\* ------------------------------------------------------- the Sniper contract

\* ETH the caller holds at the start, in ether
MaxEth == 3

\* tokens the router gives per ether: the price 1e15 wei per token
TokensPerEth == 1000

\* block.timestamp of the block the calls are mined in
BlockTimestamp == 10

Accounts == {"user1", "creator1", "sniper", "router", "zero"}

\* ETH and token balances after the deployment of the contract
InitChain ==
    [eth |-> [a \in Accounts |-> IF a = "user1" THEN MaxEth ELSE 0],
     tok |-> [a \in Accounts |-> 0]]

\* a transfer of amount ether between two accounts
Pay(chain, from, to, amount) ==
    [chain EXCEPT !.eth = [a \in Accounts |->
        chain.eth[a] - (IF a = from THEN amount ELSE 0) + (IF a = to THEN amount ELSE 0)]]

\* router.swapExactETHForTokens{value: value}(amountOutMin, path, to, deadline)
\* called by the contract: it reverts after the deadline and when the output
\* is below amountOutMin, otherwise it keeps the ETH and credits the tokens
swapExactETHForTokens(chain, value, amountOutMin, to, deadline) ==
    IF deadline < BlockTimestamp \/ value * TokensPerEth < amountOutMin
    THEN [reverted |-> TRUE, chain |-> chain]
    ELSE [reverted |-> FALSE,
          chain |-> [Pay(chain, "sniper", "router", value) EXCEPT
                        !.tok[to] = @ + value * TokensPerEth]]

\* a swap of the whole value sent
swapWholeValue(msgValue, bribeAmount) == msgValue

\* uint256 swapAmount = msg.value - bribeAmount
swapAmount(msgValue, bribeAmount) == msgValue - bribeAmount

\* a call in which a failure after the bribe was paid is reported while the
\* payment stays
snipeWithBribeBribeFirst(chain, caller, creator, amountOutMin, deadline, bribeAmount, msgValue) ==
    LET entered == Pay(chain, caller, "sniper", msgValue)
        accepted == msgValue > bribeAmount /\ bribeAmount > 0 /\ creator # "zero"
    IN IF ~accepted THEN [reverted |-> TRUE, chain |-> chain]
       ELSE LET paid == Pay(entered, "sniper", creator, bribeAmount)
                swap == swapExactETHForTokens(paid, swapAmount(msgValue, bribeAmount),
                                              amountOutMin, caller, deadline)
            IN IF swap.reverted THEN [reverted |-> TRUE, chain |-> paid]
               ELSE [reverted |-> FALSE, chain |-> swap.chain]

\* Sniper.snipeWithBribe called by caller with msg.value = msgValue: the
\* three require statements, the swap for the caller, then
\* creator.transfer(bribeAmount), which fails when the contract holds less;
\* any failure reverts the call, the value sent included
snipeWithBribe(chain, caller, creator, amountOutMin, deadline, bribeAmount, msgValue) ==
    LET entered == Pay(chain, caller, "sniper", msgValue)
    IN IF ~(msgValue > bribeAmount) \/ ~(bribeAmount > 0) \/ creator = "zero"
       THEN [reverted |-> TRUE, chain |-> chain]
       ELSE LET swap == swapExactETHForTokens(entered, swapAmount(msgValue, bribeAmount),
                                              amountOutMin, caller, deadline)
            IN IF swap.reverted \/ swap.chain.eth["sniper"] < bribeAmount
               THEN [reverted |-> TRUE, chain |-> chain]
               ELSE [reverted |-> FALSE,
                     chain |-> Pay(swap.chain, "sniper", creator, bribeAmount)]

\* the balances the next call finds
Chain == IF calc.fn \in {"snipeWithBribe", "receive"} THEN calc.res.chain ELSE InitChain

\* the arguments snipeWithBribe is called with; the creator is an account
\* that can sign a liquidity-add (the caller itself included) or address(0)
SnipeCalls ==
    [creator : {"creator1", "user1", "zero"}, amountOutMin : {1, 2 * TokensPerEth + 1},
     deadline : {BlockTimestamp - 1, BlockTimestamp}, bribeAmount : 0..MaxEth,
     value : 0..MaxEth]

\* a transaction of user1 calling snipeWithBribe is mined
CallSnipeWithBribe(c) ==
    /\ build = "contract"
    /\ Chain.eth["user1"] >= c.value
    /\ LET r == snipeWithBribe(Chain, "user1", c.creator, c.amountOutMin, c.deadline,
                               c.bribeAmount, c.value)
       IN calc' = [fn |-> "snipeWithBribe", base |-> 0, out |-> <<>>, tx |-> NoTx,
                   res |-> [pre |-> Chain, call |-> c, reverted |-> r.reverted,
                            chain |-> r.chain]]
    /\ UNCHANGED <<build, db, tasks, mgr, rpc, bot>>

\* receive() external payable {}: user1 sends one ether to the contract
receive ==
    /\ build = "contract"
    /\ Chain.eth["user1"] >= 1
    /\ calc' = [fn |-> "receive", base |-> 0, out |-> <<>>, tx |-> NoTx,
                res |-> [pre |-> Chain, call |-> <<>>, reverted |-> FALSE,
                         chain |-> Pay(Chain, "user1", "sniper", 1)]]
    /\ UNCHANGED <<build, db, tasks, mgr, rpc, bot>>

\* ------------------------------------------------------------------ the bot

\* CreateWallet calls made in all
MaxCalls == 3

\* goroutines handling /register updates
Procs == {"p1", "p2"}

IdleProc == [pc |-> "idle", user |-> "", address |-> 0, err |-> ""]

\* created[u]: the addresses CreateWallet has returned for u; wallets: the
\* wallets table in insertion order; last: the last /snipe handled
IdleBot ==
    [wallets |-> <<>>, procs |-> [p \in Procs |-> IdleProc], calls |-> 0,
     created |-> [u \in Users |-> {}],
     last |-> [user |-> "", args |-> <<>>, reply |-> "", added |-> FALSE]]

\* crypto.FromECDSA: the 32 bytes of the private key; key n is the n-th key
\* crypto.GenerateKey returned, and its address is address n
FromECDSA(privateKey) == [bytes |-> privateKey]

\* fmt.Sprintf("%x", b) and hex.EncodeToString(b): the bytes as hexadecimal
\* digits
Sprintf_x(b) == [hex |-> b.bytes]

\* crypto.HexToECDSA: the key whose bytes the hexadecimal digits spell
HexToECDSA(hexkey) == hexkey.hex

\* the bot with the wallet of u1 registered
RegisteredBot ==
    [IdleBot EXCEPT !.wallets = <<[user |-> "u1", address |-> 1,
                                   private_key |-> Sprintf_x(FromECDSA(1))]>>,
                    !.created = [u \in Users |-> IF u = "u1" THEN {1} ELSE {}]]

\* INSERT INTO wallets on a table without the UNIQUE key
InsertWalletNoKey(table, row) ==
    [err |-> FALSE, table |-> Append(table, row)]

\* DB.CreateWallet: INSERT INTO wallets; telegram_user_id is UNIQUE, so
\* the insert of a second row for a user fails
InsertWallet(table, row) ==
    IF \E k \in 1..Len(table) : table[k].user = row.user
    THEN [err |-> TRUE, table |-> table]
    ELSE [err |-> FALSE, table |-> Append(table, row)]

\* DB.GetWalletByTelegramUserID: QueryRow scans the first row of the user,
\* sql.ErrNoRows when there is none
GetWalletByTelegramUserID(table, user) ==
    LET rows == {k \in 1..Len(table) : table[k].user = user}
    IN IF rows = {} THEN [err |-> TRUE, address |-> 0, private_key |-> Sprintf_x(FromECDSA(0))]
       ELSE LET row == table[CHOOSE k \in rows : \A j \in rows : k <= j]
            IN [err |-> FALSE, address |-> row.address, private_key |-> row.private_key]

\* Manager.GetWallet: the row of the user, its private_key column parsed
\* with crypto.HexToECDSA
GetWallet(user) ==
    LET dbWallet == GetWalletByTelegramUserID(bot.wallets, user)
    IN [err |-> dbWallet.err, address |-> dbWallet.address,
        PrivateKey |-> HexToECDSA(dbWallet.private_key)]

\* Manager.CreateWallet up to the key generation: the SELECT may fail, the
\* user may already have a wallet; otherwise a fresh key is generated
CreateWalletCheck(p, user) ==
    /\ build = "wallet"
    /\ bot.procs[p].pc \in {"idle", "done"}
    /\ bot.calls < MaxCalls
    /\ \E dbErr \in BOOLEAN :
         LET existing == GetWalletByTelegramUserID(bot.wallets, user)
             proc == IF dbErr
                     THEN [pc |-> "done", user |-> user, address |-> 0,
                           err |-> "failed to check existing wallet"]
                     ELSE IF ~existing.err
                     THEN [pc |-> "done", user |-> user, address |-> 0,
                           err |-> "user already has a wallet"]
                     ELSE [pc |-> "insert", user |-> user, address |-> bot.calls + 1,
                           err |-> ""]
         IN bot' = [bot EXCEPT !.procs[p] = proc, !.calls = bot.calls + 1]
    /\ UNCHANGED <<build, db, tasks, mgr, calc, rpc>>

\* Manager.CreateWallet from the INSERT on: an insert that fails is returned
\* as an error, one that succeeds returns the wallet
CreateWalletInsert(p) ==
    /\ build = "wallet"
    /\ bot.procs[p].pc = "insert"
    /\ LET proc == bot.procs[p]
           ins == InsertWallet(bot.wallets,
                               [user |-> proc.user, address |-> proc.address,
                                private_key |-> Sprintf_x(FromECDSA(proc.address))])
       IN bot' = IF ins.err
                 THEN [bot EXCEPT !.procs[p].pc = "done", !.procs[p].address = 0,
                                  !.procs[p].err = "failed to store wallet in database"]
                 ELSE [bot EXCEPT !.procs[p].pc = "done",
                                  !.wallets = ins.table,
                                  !.created[proc.user] = @ \cup {proc.address}]
    /\ UNCHANGED <<build, db, tasks, mgr, calc, rpc>>

\* the token addresses typed after /snipe: T1 and T2 stand for "0x" and 40
\* hexadecimal digits, 0xZZ for "0x" and 40 letters Z, 0x12 for "0x12", and
\* 12 for 42 digits
TokenTexts == {"T1", "T2", "0xZZ", "0x12", "12"}

len(tokenAddress) == IF tokenAddress = "0x12" THEN 4 ELSE 42

Prefix2(tokenAddress) == IF tokenAddress = "12" THEN "12" ELSE "0x"

\* fmt.Sscanf(amount, "%f", &f): n is the number of items scanned and sign
\* the sign of f; the scan stops at the first character that cannot belong
\* to a float, so a numeric prefix is enough
Sscanf(amount) ==
    CASE amount \in {"0.1", "0.2", "0.3", "0.1abc", "1e-19"} -> [n |-> 1, sign |-> 1]
      [] amount = "0" -> [n |-> 1, sign |-> 0]
      [] amount = "-1" -> [n |-> 1, sign |-> 0 - 1]
      [] OTHER -> [n |-> 0, sign |-> 0]

isValidAmount(amount) ==
    /\ amount # ""
    /\ Sscanf(amount).n = 1
    /\ Sscanf(amount).sign > 0

\* the words after /snipe
SnipeArgs ==
    {<<"T1", "0.1", "0.1">>, <<"T1", "0.1", "0.2">>, <<"T2", "0.1", "0.1">>,
     <<"T1", "0.1", "0.1abc">>, <<"T1", "0.1", "1e-19">>, <<"T1", "0.1abc", "0.1">>,
     <<"0xZZ", "0.1", "0.1">>, <<"0x12", "0.1", "0.1">>, <<"12", "0.1", "0.1">>,
     <<"T1", "abc", "0.1">>, <<"T1", "-1", "0.1">>, <<"T1", "0.1", "0">>,
     <<"T1", "0.1">>, <<"T1", "0.1", "0.1", "0.1">>}

\* the reply of handleSnipe and whether it goes on to insert the record
handleSnipeReply(userID, parts) ==
    IF Len(parts) # 3 THEN "Usage"
    ELSE IF GetWallet(userID).err THEN "Wallet not found"
    ELSE IF len(parts[1]) # 42 \/ Prefix2(parts[1]) # "0x"
         THEN "Invalid token address format"
    ELSE IF ~isValidAmount(parts[2]) THEN "Invalid amount"
    ELSE IF ~isValidAmount(parts[3]) THEN "Invalid bribe amount"
    ELSE "ok"

\* handleSnipe: the checks, then DB.CreateSnipe, which may fail
handleSnipe(userID, parts) ==
    /\ build = "bot"
    /\ Len(db) < MaxSnipes
    /\ LET reply == handleSnipeReply(userID, parts)
       IN \/ /\ reply # "ok"
             /\ db' = db
             /\ bot' = [bot EXCEPT !.last = [user |-> userID, args |-> parts,
                                             reply |-> reply, added |-> FALSE]]
          \/ /\ reply = "ok"
             /\ \/ /\ db' = CreateSnipeRow(db, userID, parts[1], parts[2], parts[3])
                   /\ bot' = [bot EXCEPT !.last = [user |-> userID, args |-> parts,
                                   reply |-> "Snipe request submitted", added |-> TRUE]]
                \/ /\ db' = db
                   /\ bot' = [bot EXCEPT !.last = [user |-> userID, args |-> parts,
                                   reply |-> "Failed to submit snipe request",
                                   added |-> FALSE]]
    /\ UNCHANGED <<build, tasks, mgr, calc, rpc>>

\* ------------------------------------------------------- the migration runner

\* Run invocations made in all
MaxRuns == 3

\* the entries of a migrations directory: the file name, whether the path
\* ends in ".sql", the part of the name before the first "_" as its digits,
\* and whether one of its statements fails in the database
MigrationFiles ==
    [f1 |-> [name |-> "001_initial_schema.sql", sql |-> TRUE, prefix |-> <<0, 0, 1>>,
             fails |-> FALSE],
     f2 |-> [name |-> "002_add_new_table.sql", sql |-> TRUE, prefix |-> <<0, 0, 2>>,
             fails |-> FALSE],
     f2b |-> [name |-> "002_add_user_settings.sql", sql |-> TRUE, prefix |-> <<0, 0, 2>>,
              fails |-> FALSE],
     f3 |-> [name |-> "003_add_index.sql", sql |-> TRUE, prefix |-> <<0, 0, 3>>,
             fails |-> TRUE],
     readme |-> [name |-> "README.md", sql |-> FALSE, prefix |-> <<>>, fails |-> FALSE]]

\* the directories Run is called with
MigrationDirs ==
    {{"f1", "f2", "readme"}, {"f1", "f2", "f3"}, {"f1", "f2", "f2b"}}

\* version := strings.Split(filename, "_")[0]
Version(f) == MigrationFiles[f].prefix

\* a < b on strings: the comparison byte by byte
RECURSIVE StringLess(_, _)
StringLess(a, b) ==
    IF b = <<>> THEN FALSE
    ELSE IF a = <<>> THEN TRUE
    ELSE IF Head(a) # Head(b) THEN Head(a) < Head(b)
    ELSE StringLess(Tail(a), Tail(b))

\* loadMigrations: the ".sql" files of the directory, sorted by version with
\* sort.Slice, which leaves files of one version in either order
loadMigrations(dir) ==
    LET files == {f \in dir : MigrationFiles[f].sql}
    IN {s \in Perms(files) :
            \A i, j \in 1..Cardinality(files) :
                i < j => ~StringLess(Version(s[j]), Version(s[i]))}

\* a check that finds no version applied
isMigrationAppliedNever(version, appliedMigrations) == FALSE

\* isMigrationApplied: appliedMigrations[version]
isMigrationApplied(version, appliedMigrations) == version \in appliedMigrations

IdleRun ==
    [pc |-> "idle", migrations |-> <<>>, applied |-> {}, i |-> 0, did |-> <<>>,
     attempts |-> 0]

\* the migrations directory, the version column of the migrations table, the
\* versions whose transactions were committed, in commit order, and the Run
\* invocations
InitMigration(dir) ==
    [dir |-> dir, table |-> {}, log |-> <<>>, started |-> 0,
     runs |-> [p \in {"p1", "p2"} |-> IdleRun]]

\* Run up to its loop: createMigrationsTable, loadMigrations and
\* getAppliedMigrations, the SELECT of the versions recorded so far
Run(p) ==
    /\ build = "migration"
    /\ calc.res.runs[p].pc \in {"idle", "done", "failed"}
    /\ calc.res.started < MaxRuns
    /\ \E migrations \in loadMigrations(calc.res.dir) :
           calc' = [calc EXCEPT
               !.res.started = @ + 1,
               !.res.runs[p] = [pc |-> "loop", migrations |-> migrations,
                                applied |-> calc.res.table, i |-> 1, did |-> <<>>,
                                attempts |-> 0]]
    /\ UNCHANGED <<build, db, tasks, mgr, rpc, bot>>

\* one turn of the loop of Run: a migration found in the map read before the
\* loop is skipped; applyMigration runs the others in a transaction that is
\* rolled back when a statement fails or when the INSERT into migrations
\* meets the UNIQUE version, and Run returns the error
applyMigration(p) ==
    /\ build = "migration"
    /\ calc.res.runs[p].pc = "loop"
    /\ LET run == calc.res.runs[p]
       IN IF run.i > Len(run.migrations)
          THEN calc' = [calc EXCEPT !.res.runs[p].pc = "done"]
          ELSE LET version == Version(run.migrations[run.i])
               IN IF isMigrationApplied(version, run.applied)
                  THEN calc' = [calc EXCEPT !.res.runs[p].i = @ + 1]
                  ELSE IF MigrationFiles[run.migrations[run.i]].fails
                          \/ version \in calc.res.table
                  THEN calc' = [calc EXCEPT !.res.runs[p].pc = "failed",
                                            !.res.runs[p].attempts = @ + 1]
                  ELSE calc' = [calc EXCEPT
                           !.res.table = @ \cup {version},
                           !.res.log = Append(@, version),
                           !.res.runs[p].i = @ + 1,
                           !.res.runs[p].attempts = @ + 1,
                           !.res.runs[p].did = Append(@, version)]
    /\ UNCHANGED <<build, db, tasks, mgr, rpc, bot>>

\* ------------------------------------------------------ the in-memory ledger

\* AddSnipeBid calls made in all
MaxAdds == 3

\* the token addresses of the bids, as common.Address values
TokenAddresses == {1, 2}

\* common.Address.Hex(): the checksummed text of the 20 bytes
Hex(address) == IF address = 1 THEN "T1" ELSE "T2"

\* a mutex any goroutine may take while another holds it
LockFreeAlways(mu) == TRUE

\* s.mu.Lock() returns when no goroutine holds the mutex
LockFree(mu) == mu = ""

IdleAdd == [pc |-> "idle", bid |-> [id |-> 0, TokenAddress |-> 1], slice |-> <<>>]

\* Service after NewService: the mutex free, snipeBids an empty map (a key
\* never written reads as the nil slice); order lists the bids in the order
\* in which their calls took the mutex
InitLedger ==
    [mu |-> "", snipeBids |-> [k \in {Hex(a) : a \in TokenAddresses} |-> <<>>],
     order |-> <<>>, adds |-> [p \in {"p1", "p2"} |-> IdleAdd]]

\* AddSnipeBid up to the return of s.mu.Lock()
AddSnipeBidLock(p, address) ==
    /\ build = "ledger"
    /\ calc.res.adds[p].pc = "idle"
    /\ Len(calc.res.order) < MaxAdds
    /\ LockFree(calc.res.mu)
    /\ LET bid == [id |-> Len(calc.res.order) + 1, TokenAddress |-> address]
       IN calc' = [calc EXCEPT !.res.mu = p,
                               !.res.order = Append(@, bid),
                               !.res.adds[p] = [pc |-> "locked", bid |-> bid, slice |-> <<>>]]
    /\ UNCHANGED <<build, db, tasks, mgr, rpc, bot>>

\* tokenAddr := bid.TokenAddress.Hex() and the read of s.snipeBids[tokenAddr]
\* that append is given
AddSnipeBidRead(p) ==
    /\ build = "ledger"
    /\ calc.res.adds[p].pc = "locked"
    /\ calc' = [calc EXCEPT
           !.res.adds[p].pc = "read",
           !.res.adds[p].slice = calc.res.snipeBids[Hex(calc.res.adds[p].bid.TokenAddress)]]
    /\ UNCHANGED <<build, db, tasks, mgr, rpc, bot>>

\* the store of append(slice, bid) under tokenAddr and the deferred
\* s.mu.Unlock()
AddSnipeBidStore(p) ==
    /\ build = "ledger"
    /\ calc.res.adds[p].pc = "read"
    /\ LET add == calc.res.adds[p]
       IN calc' = [calc EXCEPT
              !.res.snipeBids[Hex(add.bid.TokenAddress)] = Append(add.slice, add.bid),
              !.res.mu = "",
              !.res.adds[p].pc = "idle"]
    /\ UNCHANGED <<build, db, tasks, mgr, rpc, bot>>

\* ----------------------------------------------------------- specification

Builds ==
    {"services", "backend", "manager", "functions", "rpc", "rpc_internal", "bot", "wallet",
     "contract", "migration", "ledger"}

InitVars ==
    /\ db = <<>>
    /\ tasks = [t \in Tasks |-> IdleTask]
    /\ mgr = IdleMgr
    /\ calc \in CASE build = "migration" ->
                        {[IdleCalc EXCEPT !.fn = "Run", !.res = InitMigration(dir)] :
                            dir \in MigrationDirs}
                    [] build = "ledger" ->
                        {[IdleCalc EXCEPT !.fn = "AddSnipeBid", !.res = InitLedger]}
                    [] OTHER -> {IdleCalc}
    /\ rpc = [r \in Reqs |-> IdleReq]
    /\ bot = IF build = "bot" THEN RegisteredBot ELSE IdleBot

Init ==
    /\ build \in Builds
    /\ InitVars

Next ==
    \/ \E i \in SnipeInputs : CreateSnipe(i.user, i.token, i.amount, i.bribe)
    \/ \E t \in Tasks, r \in NotificationInputs : handleLPAddNotification(t, r)
    \/ \E t \in Tasks : DrainSnipes(t)
    \/ \E t \in Tasks : BuildBundle(t)
    \/ \E t \in Tasks : SubmitBundle(t)
    \/ \E t \in Tasks : BuildBundleBackend(t)
    \/ \E t \in Tasks : submitBundleToSequencer(t)
    \/ \E t \in Tasks : MarkSubmitted(t)
    \/ DeadlinePasses("t1")
    \/ \E p \in LpGasPrices, f \in BidSlices : CreateBundleTransactions(p, f)
    \/ SubmitBundleManager
    \/ \E b \in FeeBases, n \in 1..MaxLadder : ApplyMaxFeePerGas(b, n)
    \/ \E b \in FeeBases, n \in 1..MaxLadder : ApplyGasPrice(b, n)
    \/ \E b \in FeeBases, n \in 1..MaxLadder : ApplyGetBundleGasPrice(b, n)
    \/ \E x \in TxInputs : ApplyClassify(x)
    \/ \E x \in TxInputs, chainID \in {"ok", "err"} : ApplySender(x, chainID)
    \/ \E n \in DataLens : ApplyExtract(n)
    \/ \E r \in Reqs, q \in RpcInputs : handleRPC(r, q)
    \/ \E r \in Reqs : notifyBotService(r)
    \/ \E r \in Reqs, q \in RpcInputs : rpc_internal_handleRPC(r, q)
    \/ \E r \in Reqs : forwardToBase(r)
    \/ \E p \in Procs, u \in Users : CreateWalletCheck(p, u)
    \/ \E p \in Procs : CreateWalletInsert(p)
    \/ \E u \in Users, a \in SnipeArgs : handleSnipe(u, a)
    \/ \E c \in SnipeCalls : CallSnipeWithBribe(c)
    \/ receive
    \/ \E p \in Procs : Run(p)
    \/ \E p \in Procs : applyMigration(p)
    \/ \E p \in Procs, a \in TokenAddresses : AddSnipeBidLock(p, a)
    \/ \E p \in Procs : AddSnipeBidRead(p)
    \/ \E p \in Procs : AddSnipeBidStore(p)

Spec == Init /\ [][Next]_vars

\* Ordering and bundle building one auction task at a time: the sequential
\* behaviour of the auction services, the Manager and the fee functions.
InitBundling ==
    /\ build \in {"services", "backend", "manager", "functions"}
    /\ InitVars

NextBundling ==
    \/ \E i \in SnipeInputs : CreateSnipe(i.user, i.token, i.amount, i.bribe)
    \/ \E r \in NotificationInputs : handleLPAddNotification("t1", r)
    \/ DrainSnipes("t1")
    \/ BuildBundle("t1")
    \/ SubmitBundle("t1")
    \/ BuildBundleBackend("t1")
    \/ submitBundleToSequencer("t1")
    \/ MarkSubmitted("t1")
    \/ \E p \in LpGasPrices, f \in BidSlices : CreateBundleTransactions(p, f)
    \/ SubmitBundleManager
    \/ \E b \in FeeBases, n \in 1..MaxLadder : ApplyMaxFeePerGas(b, n)
    \/ \E b \in FeeBases, n \in 1..MaxLadder : ApplyGasPrice(b, n)
    \/ \E b \in FeeBases, n \in 1..MaxLadder : ApplyGetBundleGasPrice(b, n)
    \/ \E x \in TxInputs : ApplyClassify(x)
    \/ \E x \in TxInputs, chainID \in {"ok", "err"} : ApplySender(x, chainID)
    \/ \E n \in DataLens : ApplyExtract(n)

SpecBundling == InitBundling /\ [][NextBundling]_vars

\* The wallet manager alone: concurrent /register updates.
InitWallet ==
    /\ build = "wallet"
    /\ InitVars

NextWallet ==
    \/ \E p \in Procs, u \in Users : CreateWalletCheck(p, u)
    \/ \E p \in Procs : CreateWalletInsert(p)

SpecWallet == InitWallet /\ [][NextWallet]_vars

\* The Sniper contract alone: calls of user1 mined one after the other.
InitContract ==
    /\ build = "contract"
    /\ InitVars

NextContract ==
    \/ \E c \in SnipeCalls : CallSnipeWithBribe(c)
    \/ receive

SpecContract == InitContract /\ [][NextContract]_vars

\* The proxy and the auction service it notifies: one inbound call, one
\* auction task.
InitSystem ==
    /\ build = "system"
    /\ InitVars

NextSystem ==
    \/ \E i \in SnipeInputs : CreateSnipe(i.user, i.token, i.amount, i.bribe)
    \/ \E q \in RpcInputs : handleRPC("r1", q)
    \/ notifyBotServiceDelivered("r1", "t1")
    \/ forwardToBase("r1")
    \/ DrainSnipes("t1")
    \/ BuildBundle("t1")
    \/ SubmitBundle("t1")
    \/ MarkSubmitted("t1")

SpecSystem == InitSystem /\ [][NextSystem]_vars

\* The migration runner alone: Run invocations, two of them at a time.
InitMigrations ==
    /\ build = "migration"
    /\ InitVars

NextMigrations ==
    \/ \E p \in Procs : Run(p)
    \/ \E p \in Procs : applyMigration(p)

SpecMigrations == InitMigrations /\ [][NextMigrations]_vars

\* The in-memory ledger alone: concurrent AddSnipeBid calls.
InitLedgerOnly ==
    /\ build = "ledger"
    /\ InitVars

NextLedger ==
    \/ \E p \in Procs, a \in TokenAddresses : AddSnipeBidLock(p, a)
    \/ \E p \in Procs : AddSnipeBidRead(p)
    \/ \E p \in Procs : AddSnipeBidStore(p)

SpecLedger == InitLedgerOnly /\ [][NextLedger]_vars

\* ------------------------------------------------------------------ claims

\* the sniper transactions of a bundle: all of them in part_011, all but the
\* liquidity-add transaction at the head in the older service and the Manager
Snipers(txs) ==
    IF txs # <<>> /\ txs[1].id = 0 THEN Tail(txs) ELSE txs

\* the fee of the liquidity-add transaction at position 0 of task t's bundle:
\* the raw transaction the creator signed in part_011, the head of the bundle
\* in the older service
LiquidityAddFee(t) ==
    IF build = "backend" /\ tasks[t].txs # <<>> THEN tasks[t].txs[1].feeCap
    ELSE tasks[t].lpFee

BidIds(txs) == {txs[k].id : k \in 1..Len(txs)}

Fees(txs) == [k \in 1..Len(txs) |-> txs[k].feeCap]

\* C1: under any interleaving of notifications for one token, no bid has a
\* sniper transaction in the bundles of two auction tasks.
C1_NoBidInTwoBundles ==
    \A t1, t2 \in Tasks :
        t1 # t2 => BidIds(Snipers(tasks[t1].txs)) \cap BidIds(Snipers(tasks[t2].txs)) = {}

\* C2: every request with a decodable eth_sendRawTransaction that the proxy
\* has answered was forwarded once to the sequencer.
C2_DecodableIsForwarded ==
    \A r \in Reqs :
        (rpc[r].pc = "done" /\ Decodes(rpc[r].q)) =>
            rpc[r].forwards = <<"BaseSequencerRPCURL">>

\* C3: the forward of a matched call does not wait for the answer to the
\* notification: no handler sits in notifyBotService with the transaction
\* not yet forwarded.
C3_ForwardDoesNotWaitForNotification ==
    \A r \in Reqs : rpc[r].pc = "notifying" => rpc[r].forwards # <<>>

\* bribes never rise along bids, and fall strictly when they are all distinct
Resolved(bids) ==
    /\ \A i \in 1..(Len(bids) - 1) : bids[i].bribe >= bids[i + 1].bribe
    /\ (\A i, j \in 1..Len(bids) : i # j => bids[i].bribe # bids[j].bribe) =>
           \A i \in 1..(Len(bids) - 1) : bids[i].bribe > bids[i + 1].bribe

\* C4: the resolved order of every auction task and of the Manager is
\* non-increasing in bribe, and strictly descending when the bribes are
\* distinct.
C4_OrderByBribe ==
    /\ \A t \in Tasks : Resolved(tasks[t].bids)
    /\ Resolved(mgr.bids)

\* C4 witness: an auction resolved two bids of distinct bribes, the later
\* arrival first.
C4_Witness ==
    \E t \in Tasks :
        /\ tasks[t].pc \in {"submit", "update", "done"}
        /\ Len(tasks[t].bids) = 2
        /\ tasks[t].bids[1].bribe > tasks[t].bids[2].bribe
        /\ tasks[t].bids[1].id > tasks[t].bids[2].id

\* C5: bids of equal bribe are resolved in arrival order (ascending id).
C5_EqualBribesKeepArrivalOrder ==
    \A t \in Tasks : \A i, j \in 1..Len(tasks[t].bids) :
        (i < j /\ tasks[t].bids[i].bribe = tasks[t].bids[j].bribe) =>
            tasks[t].bids[i].id < tasks[t].bids[j].id

\* fees never rise along s and none is below floor
Ladder(s, floor) ==
    /\ \A k \in 2..Len(s) : s[k] <= s[k - 1]
    /\ \A k \in 1..Len(s) : s[k] >= floor

\* C6: in every bundle the fee of a sniper transaction is at most the fee of
\* the one before it and at least the builder's minimum fee.
C6_FeeLadder ==
    /\ \A t \in Tasks :
         Ladder(Fees(Snipers(tasks[t].txs)),
                IF build = "services" THEN tasks[t].baseFee + maxPriorityFeePerGas
                ELSE minGasPrice)
    /\ Ladder(Fees(Snipers(mgr.txs)), minGasPrice)
    /\ Ladder(calc.out, IF calc.fn = "maxFeePerGas" THEN calc.base + maxPriorityFeePerGas
                        ELSE minGasPrice)

\* C6 witness: part_011 built a bundle of two sniper transactions, the second
\* at a lower fee cap than the first.
C6_Witness ==
    \E t \in Tasks :
        /\ build = "services"
        /\ Len(tasks[t].txs) = 2
        /\ tasks[t].txs[2].feeCap < tasks[t].txs[1].feeCap

\* C7: no sniper transaction carries a higher fee than the liquidity-add
\* transaction at position 0 of its bundle.
C7_NoSniperAboveLiquidityAdd ==
    /\ \A t \in Tasks : \A k \in 1..Len(Snipers(tasks[t].txs)) :
         Snipers(tasks[t].txs)[k].feeCap <= LiquidityAddFee(t)
    /\ \A k \in 1..Len(Snipers(mgr.txs)) : Snipers(mgr.txs)[k].feeCap <= mgr.lpFee

\* C8: when the construction for one bidder fails, the bundle holds the
\* transactions of the other bidders.
C8_FailureKeepsOthers ==
    /\ \A t \in Tasks :
         tasks[t].failed > 0 => Len(Snipers(tasks[t].txs)) = Len(tasks[t].bids) - 1
    /\ mgr.failed > 0 => Len(Snipers(mgr.txs)) = Len(mgr.bids) - 1

\* C9: a submission that has returned has attempted every position of the
\* bundle, whatever the earlier attempts answered.
C9_LaterPositionsStillAttempted ==
    /\ \A t \in Tasks :
         (build = "services" /\ tasks[t].pc \in {"update", "done"} /\ tasks[t].txs # <<>>) =>
             tasks[t].sent = 1 + Len(tasks[t].txs)
    /\ (mgr.pc = "done" /\ mgr.ret \in {"nil", "submitError"}) =>
           Len(mgr.results) = Len(mgr.txs)

\* C10: right after a task has drained the bids of its token, a second drain
\* of that token returns nothing.
C10_DrainIsDestructive ==
    [][\A t \in Tasks :
         (tasks[t].pc = "start" /\ tasks'[t].pc = "drained") =>
             GetSnipesByToken(db', tasks'[t].token) = {<<>>}]_vars

\* the ids of the rows in snipes
SnipeIds(snipes) == {snipes[k].id : k \in 1..Len(snipes)}

\* C11: a bid is never marked submitted without having been in the drained
\* set of an auction task, and it never leaves the table: a bid inserted
\* after the drain stays pending for the next drain.
C11_NoBidLost ==
    \A k \in 1..Len(db) :
        /\ db[k].id = k
        /\ db[k].status \in {"pending", "submitted"}
        /\ db[k].status = "submitted" =>
               \E t \in Tasks : db[k].id \in SnipeIds(tasks[t].snipes)

\* C11 witness: when the task comes to mark its drained bids, a bid of the
\* same token that arrived after the drain is in the table, still pending.
C11_Witness ==
    \E t \in Tasks : \E k \in 1..Len(db) :
        /\ tasks[t].pc = "update"
        /\ db[k].token = tasks[t].token
        /\ db[k].id \notin SnipeIds(tasks[t].snipes)
        /\ db[k].status = "pending"

\* task t has converted and sorted the bids it drained
HasResolved(t) ==
    \/ tasks[t].pc \in {"submit", "update"}
    \/ tasks[t].outcome \in {"headerError", "buildError", "submitError", "submitted"}

\* C12: the resolved sequence holds every drained bid once, except the bids
\* the conversion reported in the log and left out; none is repeated.
C12_ResolvedIsPermutation ==
    \A t \in Tasks :
        HasResolved(t) =>
            /\ Cardinality(BidIds(tasks[t].bids)) = Len(tasks[t].bids)
            /\ BidIds(tasks[t].bids) \cup convertLog(tasks[t].snipes) = SnipeIds(tasks[t].snipes)
            /\ BidIds(tasks[t].bids) \cap convertLog(tasks[t].snipes) = {}

\* C12 witness: an auction drained two bids, the first of which was reported
\* and left out, and resolved the other.
C12_Witness ==
    \E t \in Tasks :
        /\ HasResolved(t)
        /\ Len(tasks[t].snipes) = 2
        /\ tasks[t].snipes[1].id \in convertLog(tasks[t].snipes)
        /\ BidIds(tasks[t].bids) = {tasks[t].snipes[2].id}

\* C13: no sniper transaction is built from a swap or bribe amount that is
\* not positive.
C13_NoTransactionFromNonPositiveAmount ==
    \A t \in Tasks : \A k \in 1..Len(Snipers(tasks[t].txs)) :
        /\ Snipers(tasks[t].txs)[k].bribe > 0
        /\ Snipers(tasks[t].txs)[k].value > Snipers(tasks[t].txs)[k].bribe

\* the floor the builder of task t's bundle applies to a sniper fee
MinFee(t) ==
    IF build = "services" THEN tasks[t].baseFee + maxPriorityFeePerGas ELSE minGasPrice

\* C14: the fee cap of the sniper at position i (from 1) is the fee of the
\* liquidity-add transaction at position 0 less i steps of 1 wei, and at
\* least the minimum fee.
C14_FeeCapFromLiquidityAdd ==
    \A t \in Tasks : \A i \in 1..Len(Snipers(tasks[t].txs)) :
        Snipers(tasks[t].txs)[i].feeCap = Max(MinFee(t), LiquidityAddFee(t) - i)

\* C15: the first transaction a bundle pipeline sends to the sequencer is the
\* liquidity-add transaction as its creator signed it.
C15_PositionZeroIsOriginal ==
    \A t \in Tasks :
        tasks[t].wire # <<>> => tasks[t].wire[1] = LpAddTx(tasks[t].token)

\* a is an initial part of b
IsPrefix(a, b) ==
    Len(a) <= Len(b) /\ \A k \in 1..Len(a) : a[k] = b[k]

\* the sniper transactions stand in the order of the resolved bids
InBidOrder(txs, bids) ==
    Len(txs) = Len(bids) /\ \A k \in 1..Len(txs) : txs[k].id = bids[k].id

\* C16: what submitBundle and Manager.SubmitBundle have sent so far is an
\* initial part of the bundle: the liquidity-add transaction, then the sniper
\* transactions in resolved order, one attempt after the other.
C16_SubmittedInBundleOrder ==
    /\ \A t \in Tasks :
         (build = "services" /\ tasks[t].wire # <<>>) =>
             /\ IsPrefix(tasks[t].wire, <<LpAddTx(tasks[t].token)>> \o tasks[t].txs)
             /\ InBidOrder(tasks[t].txs, tasks[t].bids)
             /\ Len(tasks[t].wire) = tasks[t].sent
    /\ mgr.wire # <<>> =>
         /\ IsPrefix(mgr.wire, mgr.txs)
         /\ mgr.txs[1].id = 0
         /\ InBidOrder(Tail(mgr.txs), mgr.bids)
         /\ Len(mgr.wire) = Len(mgr.results)

\* C16 witness: submitBundle has sent the liquidity-add transaction and two
\* sniper transactions, the higher bribe before the lower.
C16_Witness ==
    \E t \in Tasks :
        /\ build = "services"
        /\ Len(tasks[t].wire) = 3
        /\ tasks[t].wire[1].id = 0
        /\ tasks[t].wire[2].bribe > tasks[t].wire[3].bribe

\* C18: when a task that drained bids has terminated, none of the bids it
\* drained is still pending.
C18_DrainedBidsArchived ==
    \A t \in Tasks :
        tasks[t].pc = "done" =>
            \A id \in SnipeIds(tasks[t].snipes) : db[id].status # "pending"

\* C17: a liquidity-add the proxy has finished handling was forwarded to the
\* sequencer endpoint, and an auction task that found no pending bid has
\* returned at once: no bundle, nothing sent, no bid status changed.
C17_NoBidsStillForwarded ==
    /\ \A r \in Reqs :
           /\ build = "rpc"
           /\ rpc[r].pc = "done"
           /\ Decodes(rpc[r].q)
           /\ isAddLiquidityTransaction(rpc[r].q.tx)
           => rpc[r].forwards = <<"BaseSequencerRPCURL">>
    /\ \A t \in Tasks :
           tasks[t].outcome = "empty" =>
               /\ tasks[t].pc = "done"
               /\ tasks[t].txs = <<>>
               /\ tasks[t].wire = <<>>
               /\ tasks[t].sent = 0
               /\ tasks[t].upd = 0

\* C19: a transaction classifies as a liquidity-add exactly when its call
\* data has four bytes or more, selects addLiquidityETH and goes to the
\* router, and as a create-pair exactly when it has four bytes or more,
\* selects createPair and goes to the factory.
C19_ClassifiedIffSelectorAndDestination ==
    calc.fn = "classify" =>
        LET lpAdd == calc.tx.len >= 4 /\ calc.tx.sel = "addLiquidityETH"
                     /\ calc.tx.to = "router"
            pair == calc.tx.len >= 4 /\ calc.tx.sel = "createPair"
                    /\ calc.tx.to = "factory"
        IN /\ calc.res.isAddLiquidityTransaction = lpAdd
           /\ calc.res.IsLPAddTransaction = lpAdd
           /\ calc.res.isCreatePairTransaction = pair

\* C20: with the chain id at hand, each recovery of the creator returns the
\* signer of a legacy and of a dynamic fee transaction whose signature is
\* valid, and an error for a signature that is not.
C20_SenderRecovered ==
    calc.fn = "sender" /\ calc.res.chainID = "ok" =>
        LET expected == IF calc.tx.sender = "ok" THEN "signer" ELSE "error"
        IN /\ calc.res.extractSenderFromTransaction = expected
           /\ calc.res.GetCreatorFromLPAddTx = expected

\* the offsets of the low 20 bytes of the 32-byte words 0..n-1 that follow
\* the selector
LowBytes(n) == [k \in 1..n |-> <<4 + 32 * (k - 1) + 12, 4 + 32 * k>>]

\* C21: an extraction fails exactly on call data shorter than 4 + 32 * words
\* bytes (2 words for createPair, 6 for addLiquidityETH); when it succeeds
\* every slice it reads lies inside the call data and each address is the low
\* 20 bytes of its word.
C21_ExtractionRejectsShortData ==
    calc.fn = "extract" =>
        LET pair == calc.res.extractTokensFromCreatePair
            liq == calc.res.extractTokenFromAddLiquidity
            lp == calc.res.extractTokenFromLPAdd
            InBounds(r) == \A k \in 1..Len(r.slices) : r.slices[k][2] <= calc.tx.len
        IN /\ pair.err = (calc.tx.len < 4 + 32 * 2)
           /\ liq.err = (calc.tx.len < 4 + 32 * 6)
           /\ lp.err = (calc.tx.len < 4 + 32 * 6)
           /\ InBounds(pair) /\ InBounds(liq) /\ InBounds(lp)
           /\ ~pair.err => pair.slices = LowBytes(2)
           /\ ~liq.err => liq.slices = LowBytes(1)
           /\ ~lp.err => lp.slices = LowBytes(1)

\* C22: every answered request whose JSON-RPC method is not
\* eth_sendRawTransaction was passed on exactly once, to the read endpoint,
\* and the status the caller got is the one the upstream answered with.
C22_OtherMethodsPassThrough ==
    \A r \in Reqs :
        /\ rpc[r].pc = "done"
        /\ rpc[r].q.http = "POST"
        /\ rpc[r].q.method \notin {"", "eth_sendRawTransaction"}
        => /\ rpc[r].forwards = <<"BaseRPCURL">>
           /\ rpc[r].upstream # 0 => rpc[r].status = rpc[r].upstream

\* task t has drained, built, sent or updated something
Worked(t) ==
    \/ tasks[t].pc # "idle"
    \/ tasks[t].snipes # <<>>
    \/ tasks[t].txs # <<>>
    \/ tasks[t].wire # <<>>
    \/ tasks[t].upd # 0

\* C23: an auction task runs only for a POST whose Authorization header is
\* "Bearer " followed by the configured key; a non-POST is answered 405, a
\* POST with any other header 401, and neither drains, builds, sends or
\* changes a bid status.
C23_TaskOnlyForAuthorizedPost ==
    \A t \in Tasks :
        /\ Worked(t) =>
               tasks[t].req.method = "POST" /\ tasks[t].req.auth = "Bearer k1"
        /\ tasks[t].req.method \notin {"", "POST"} =>
               tasks[t].resp = 405 /\ ~Worked(t)
        /\ tasks[t].req.method = "POST" /\ tasks[t].req.auth # "Bearer k1" =>
               tasks[t].resp = 401 /\ ~Worked(t)

\* C23: a POST with a wrong key was answered while a bid for its token was
\* pending.
C23_Witness ==
    \E t \in Tasks, k \in 1..Len(db) :
        /\ tasks[t].req.auth = "Bearer k2"
        /\ tasks[t].resp = 401
        /\ db[k].token = tasks[t].req.token
        /\ db[k].status = "pending"

\* "0x" followed by 40 hexadecimal digits
WellFormedAddress(tokenAddress) == tokenAddress \in {"T1", "T2"}

\* the string is a number and the amount it denotes is above zero
PositiveAmount(amount) ==
    ~ParseFloat(amount).err /\ ParseFloat(amount).val > 0

\* C24: every record handleSnipe created belongs to a user with a wallet, has
\* a well-formed token address and positive swap and bribe amounts; a request
\* that fails one of these checks added no record and was not answered with
\* the success message.
C24_RecordsPassValidation ==
    build = "bot" =>
        /\ \A k \in 1..Len(db) :
               /\ ~GetWallet(db[k].user).err
               /\ WellFormedAddress(db[k].token)
               /\ PositiveAmount(db[k].amount)
               /\ PositiveAmount(db[k].bribe)
        /\ LET a == bot.last.args
           IN (/\ bot.last.reply # ""
               /\ ~(/\ Len(a) = 3
                    /\ ~GetWallet(bot.last.user).err
                    /\ WellFormedAddress(a[1])
                    /\ PositiveAmount(a[2])
                    /\ PositiveAmount(a[3])))
              => ~bot.last.added /\ bot.last.reply # "Snipe request submitted"

\* the rows of the wallets table that belong to user
WalletRows(user) == {k \in 1..Len(bot.wallets) : bot.wallets[k].user = user}

\* C28: each user has at most one wallet row; CreateWallet has returned at
\* most one address per user and GetWallet returns that address; a call
\* that returned an error stored nothing, and a call answered "user already
\* has a wallet" found a row of that user.
C28_OneWalletPerUser ==
    /\ \A u \in Users :
           /\ Cardinality(WalletRows(u)) <= 1
           /\ Cardinality(bot.created[u]) <= 1
           /\ {bot.wallets[k].address : k \in WalletRows(u)} = bot.created[u]
           /\ bot.created[u] # {} =>
                  ~GetWallet(u).err /\ GetWallet(u).address \in bot.created[u]
    /\ \A p \in Procs :
           LET proc == bot.procs[p]
           IN /\ proc.pc = "done" /\ proc.err # "" =>
                     \A k \in 1..Len(bot.wallets) : bot.wallets[k].address # proc.address
              /\ proc.pc = "done" /\ proc.err = "user already has a wallet" =>
                     WalletRows(proc.user) # {}
              /\ proc.pc = "done" /\ proc.err = "" =>
                     bot.created[proc.user] = {proc.address}

\* C28: two calls for one user raced; one stored the wallet, the insert of
\* the other was refused.
C28_Witness ==
    \E p, q \in Procs :
        /\ bot.procs[p].pc = "done"
        /\ bot.procs[p].err = "failed to store wallet in database"
        /\ bot.procs[q].pc = "done"
        /\ bot.procs[q].err = ""
        /\ bot.procs[q].user = bot.procs[p].user

\* C25: once the deadline of the liquidity-add has passed for a task, the
\* task builds no further transaction and submits none.
C25_NothingSubmittedAfterDeadline ==
    [][\A t \in Tasks :
           tasks[t].expired =>
               tasks'[t].wire = tasks[t].wire /\ tasks'[t].txs = tasks[t].txs]_vars

\* C26: the sniper transaction at position i of a task's bundle is signed
\* only once the submissions at the positions 0..i-1 have been attempted.
C26_SignedJustBeforeSubmission ==
    \A t \in Tasks :
        \A i \in 1..Len(Snipers(tasks[t].txs)) :
            Snipers(tasks[t].txs)[i].signed => tasks[t].sent >= i

\* every sniper transaction of txs carries the amounts and the token of the
\* bid with its id
CarriesBid(txs, bids) ==
    \A i \in 1..Len(Snipers(txs)) :
        LET tx == Snipers(txs)[i]
        IN \E k \in 1..Len(bids) :
               /\ bids[k].id = tx.id
               /\ tx.from = bids[k].user
               /\ tx.value = bids[k].swap + bids[k].bribe
               /\ tx.bribe = bids[k].bribe
               /\ swapAmount(tx.value, tx.bribe) = bids[k].swap

\* C27: every sniper transaction built calls snipeWithBribe with the bid's
\* bribe and carries the value swap + bribe, so the contract swaps the bid's
\* swap amount.
C27_ValueIsSwapPlusBribe ==
    /\ \A t \in Tasks : CarriesBid(tasks[t].txs, tasks[t].bids)
    /\ \A t \in Tasks : \A i \in 1..Len(Snipers(tasks[t].txs)) :
           Snipers(tasks[t].txs)[i].token = tasks[t].token
    /\ CarriesBid(mgr.txs, mgr.bids)

\* C27: a bundle holds a sniper transaction of value 0.3 ETH for a bid that
\* swaps 0.1 ETH and bribes 0.2 ETH.
C27_Witness ==
    \E t \in Tasks : \E i \in 1..Len(tasks[t].txs) :
        /\ tasks[t].txs[i].id # 0
        /\ tasks[t].txs[i].value = 300
        /\ tasks[t].txs[i].bribe = 200

\* the change of account a's ETH balance in the last call
EthDelta(a) == calc.res.chain.eth[a] - calc.res.pre.eth[a]

C30_Atomic ==
    calc.fn = "snipeWithBribe" =>
        LET c == calc.res.call
        IN /\ (\/ c.value <= c.bribeAmount
               \/ c.bribeAmount = 0
               \/ c.creator = "zero"
               \/ c.deadline < BlockTimestamp
               \/ (c.value - c.bribeAmount) * TokensPerEth < c.amountOutMin)
              => calc.res.reverted
           /\ calc.res.reverted => calc.res.chain = calc.res.pre
           /\ ~calc.res.reverted =>
                  /\ EthDelta("router") > 0
                  /\ calc.res.chain.tok["user1"] > calc.res.pre.tok["user1"]
                  /\ c.creator # "user1" => EthDelta(c.creator) = c.bribeAmount

\* C30: a call with value above a positive bribe reverted because the swap
\* gave less than amountOutMin.
C30_Witness ==
    /\ calc.fn = "snipeWithBribe"
    /\ calc.res.reverted
    /\ calc.res.call.value > calc.res.call.bribeAmount
    /\ calc.res.call.bribeAmount > 0
    /\ calc.res.call.creator = "creator1"
    /\ calc.res.call.deadline >= BlockTimestamp
    /\ calc.res.chain = calc.res.pre

\* the versions of seq s rise strictly
StrictlyAscending(s) ==
    \A i \in 1..(Len(s) - 1) : StringLess(s[i], s[i + 1])

\* the versions of the ".sql" files of the directory
DirVersions == {Version(f) : f \in {g \in calc.res.dir : MigrationFiles[g].sql}}

IsPlaintextKey(value) ==
    \E privateKey \in 0..MaxCalls : value = Sprintf_x(FromECDSA(privateKey))

\* C32: no row of the wallets table holds a private key in plaintext.
C32_KeysStoredEncrypted ==
    \A k \in 1..Len(bot.wallets) : ~IsPlaintextKey(bot.wallets[k].private_key)

\* C33: the sniper transactions of one bundle of part_011 have pairwise
\* distinct (sender wallet, nonce) pairs.
C33_DistinctSenderNonce ==
    build = "services" =>
        \A t \in Tasks : \A i, j \in 1..Len(tasks[t].txs) :
            i # j => <<tasks[t].txs[i].from, tasks[t].txs[i].nonce>>
                         # <<tasks[t].txs[j].from, tasks[t].txs[j].nonce>>

\* the POSTs that carried the liquidity-add transaction of the inbound call
\* to the sequencer: the forward of the proxy and the submitTx calls of the
\* auction task for the raw transaction
LiquidityAddSends ==
    Cardinality({k \in 1..Len(rpc["r1"].forwards) :
                    rpc["r1"].forwards[k] = "BaseSequencerRPCURL"})
    + Cardinality({k \in 1..Len(tasks["t1"].wire) : tasks["t1"].wire[k].id = 0})

\* C34: the liquidity-add transaction of a matched inbound call is sent to
\* the sequencer at most once, by the auction task or by the proxy.
C34_LiquidityAddSentOnce ==
    build = "system" => LiquidityAddSends <= 1

\* C35: every row marked 'submitted' has a sniper transaction built from it
\* among the transactions some auction task sent to the sequencer.
C35_SubmittedOnlyIfSent ==
    \A k \in 1..Len(db) :
        db[k].status = "submitted" =>
            \E t \in Tasks : \E n \in 1..Len(tasks[t].wire) :
                tasks[t].wire[n].id = db[k].id

\* task t touches bids of its own token only: what it drained, ordered and
\* built from, what it sent, and the rows it has marked
OwnTokenOnly(t) ==
    /\ \A k \in 1..Len(tasks[t].snipes) : tasks[t].snipes[k].token = tasks[t].token
    /\ \A k \in 1..Len(tasks[t].bids) : tasks[t].bids[k].token = tasks[t].token
    /\ \A k \in 1..Len(tasks[t].txs) : tasks[t].txs[k].token = tasks[t].token
    /\ \A k \in 1..Len(tasks[t].wire) : tasks[t].wire[k].token = tasks[t].token

\* no sniper transaction of task a is a transaction of the same wallet and
\* nonce as one of task b, which the sequencer would take in its place
NoSharedNonce(a, b) ==
    \A i \in 1..Len(tasks[a].txs), j \in 1..Len(tasks[b].txs) :
        <<tasks[a].txs[i].from, tasks[a].txs[i].nonce>>
            # <<tasks[b].txs[j].from, tasks[b].txs[j].nonce>>

\* C36: auction tasks of different tokens touch bids of their own token only,
\* and the transactions of one are not displaced by those of the other.
C36_AuctionsIndependent ==
    build = "services" =>
        /\ \A t \in Tasks : OwnTokenOnly(t)
        /\ \A a, b \in Tasks :
               (tasks[a].token # "" /\ tasks[b].token # "" /\ tasks[a].token # tasks[b].token)
                   => NoSharedNonce(a, b)

\* parseETHAmount turns the string into a wei amount above zero
ConvertsToPositiveWei(amountStr) ==
    /\ ~parseETHAmount(amountStr).err
    /\ parseETHAmount(amountStr).wei > 0

\* C38: the amount and the bribe of every record handleSnipe has stored,
\* both accepted by isValidAmount, convert with parseETHAmount to a wei
\* amount above zero.
C38_AcceptedAmountsConvert ==
    build = "bot" =>
        \A k \in 1..Len(db) :
            /\ ConvertsToPositiveWei(db[k].amount)
            /\ ConvertsToPositiveWei(db[k].bribe)

\* C37: an auction task that has returned has submitted its bundle or has
\* found no pending bid for the token.
C37_EndsSubmittedOrEmpty ==
    \A t \in Tasks :
        (tasks[t].pc = "done" /\ tasks[t].resp = 200) =>
            tasks[t].outcome \in {"submitted", "empty"}

\* the bids of calls that hold the mutex and have not stored yet
InFlight == {calc.res.adds[p].bid : p \in {q \in Procs : calc.res.adds[q].pc # "idle"}}

\* the bids of the finished calls for key, in the order the calls took the
\* mutex
Filed(key) ==
    SelectSeq(calc.res.order, LAMBDA bid : Hex(bid.TokenAddress) = key /\ bid \notin InFlight)

\* C39: after any interleaving of AddSnipeBid calls the slice under each
\* token key holds the bids of the finished calls for that token, each once
\* and in the order the calls took the mutex.
C39_AddSnipeBidAtomic ==
    build = "ledger" =>
        \A key \in DOMAIN calc.res.snipeBids : calc.res.snipeBids[key] = Filed(key)

\* C39 witness: three calls of two goroutines have finished, two of them for
\* one token.
C39_Witness ==
    /\ build = "ledger"
    /\ Len(calc.res.order) = MaxAdds
    /\ \A p \in Procs : calc.res.adds[p].pc = "idle"
    /\ Len(calc.res.snipeBids["T1"]) = 2
    /\ Len(calc.res.snipeBids["T2"]) = 1

====
